---- MODULE Spec2Model ----
(***************************************************************************)
(* Model of energybot.py: the per-user rate store (rates.json), the        *)
(* setrate and checknow commands, and the daily_check task with its        *)
(* notifier.  Coroutines are cut at their await points: a step of the      *)
(* model is the code that runs between two awaits.                         *)
(*                                                                         *)
(* Text is a sequence of one-character strings.  A Decimal is a record     *)
(* [valid, neg, coef, exp] (value = +/- coef / 10^exp).  Python's None is  *)
(* <<>> and any other optional value v is <<v>>.                           *)
(***************************************************************************)
EXTENDS Integers, Sequences, FiniteSets, TLC

\* ------------------------------------------------------------------ bounds
MaxCmds == 2      \* commands (setrate, checknow) issued in a behaviour
MaxPasses == 2    \* daily passes started in a behaviour

\* ------------------------------------------------------------------ text
None == <<>>
Some(v) == <<v>>

Digits == {"0", "1", "2", "3", "4", "5", "6", "7", "8", "9"}

DigitVal(c) ==
    CASE c = "0" -> 0 [] c = "1" -> 1 [] c = "2" -> 2 [] c = "3" -> 3
      [] c = "4" -> 4 [] c = "5" -> 5 [] c = "6" -> 6 [] c = "7" -> 7
      [] c = "8" -> 8 [] c = "9" -> 9

DigitChar(n) ==
    CASE n = 0 -> "0" [] n = 1 -> "1" [] n = 2 -> "2" [] n = 3 -> "3"
      [] n = 4 -> "4" [] n = 5 -> "5" [] n = 6 -> "6" [] n = 7 -> "7"
      [] n = 8 -> "8" [] n = 9 -> "9"

RECURSIVE Pow10(_)
Pow10(n) == IF n = 0 THEN 1 ELSE 10 * Pow10(n - 1)

AllDigits(s) == \A i \in DOMAIN s : s[i] \in Digits

\* int() of a run of digits
RECURSIVE NumOf(_)
NumOf(s) ==
    IF s = <<>> THEN 0
    ELSE 10 * NumOf(SubSeq(s, 1, Len(s) - 1)) + DigitVal(s[Len(s)])

\* the decimal digits of n, at least `width` of them (zero padded)
RECURSIVE DigitsOf(_, _)
DigitsOf(n, width) ==
    IF n < 10 /\ width <= 1 THEN <<DigitChar(n)>>
    ELSE Append(DigitsOf(n \div 10, width - 1), DigitChar(n % 10))

\* str.strip()
RECURSIVE LStrip(_)
LStrip(s) == IF s # <<>> /\ s[1] = " " THEN LStrip(Tail(s)) ELSE s
RECURSIVE RStrip(_)
RStrip(s) ==
    IF s # <<>> /\ s[Len(s)] = " " THEN RStrip(SubSeq(s, 1, Len(s) - 1)) ELSE s
Strip(s) == RStrip(LStrip(s))

\* position of the first "." in s, 0 when there is none
RECURSIVE DotAt(_, _)
DotAt(s, i) ==
    IF i > Len(s) THEN 0 ELSE IF s[i] = "." THEN i ELSE DotAt(s, i + 1)

\* ------------------------------------------------------------------ Decimal
Q5 == 5    \* Decimal("0.00001"): 5 digits after the decimal point
Q2 == 2    \* Decimal("0.01"): 2 digits after the decimal point

Invalid == [valid |-> FALSE, neg |-> FALSE, coef |-> 0, exp |-> 0]

\* Decimal(text): [sign] digits [. digits]; anything else is InvalidOperation
DecimalOf(text) ==
    LET s == Strip(text)
        neg == s # <<>> /\ s[1] = "-"
        body == IF s # <<>> /\ s[1] \in {"-", "+"} THEN Tail(s) ELSE s
        dot == DotAt(body, 1)
        ip == IF dot = 0 THEN body ELSE SubSeq(body, 1, dot - 1)
        fp == IF dot = 0 THEN <<>> ELSE SubSeq(body, dot + 1, Len(body))
    IN  IF AllDigits(ip) /\ AllDigits(fp) /\ Len(ip) + Len(fp) > 0
        THEN [valid |-> TRUE, neg |-> neg,
              coef |-> NumOf(ip \o fp), exp |-> Len(fp)]
        ELSE Invalid

Max(a, b) == IF a >= b THEN a ELSE b

\* the signed number of 10^-e units of d, for e >= d.exp
Scaled(d, e) == (IF d.neg THEN 0 - d.coef ELSE d.coef) * Pow10(e - d.exp)

DecLt(a, b) == Scaled(a, Max(a.exp, b.exp)) < Scaled(b, Max(a.exp, b.exp))
DecLtZero(d) == d.neg /\ d.coef > 0
DecGeOne(d) == ~d.neg /\ d.coef >= Pow10(d.exp)

\* d.quantize(Decimal with q fractional digits, rounding=ROUND_HALF_UP)
Quantize(d, q) ==
    [valid |-> TRUE, neg |-> d.neg, exp |-> q,
     coef |-> IF d.exp <= q THEN d.coef * Pow10(q - d.exp)
              ELSE (2 * d.coef + Pow10(d.exp - q)) \div (2 * Pow10(d.exp - q))]

\* f"{d:.5f}" of a Decimal already quantized to Q5
Fmt5(d) ==
    (IF d.neg THEN <<"-">> ELSE <<>>)
    \o DigitsOf(d.coef \div Pow10(Q5), 1) \o <<".">> \o DigitsOf(d.coef % Pow10(Q5), Q5)

\* ------------------------------------------------------------------ rate parsing
\* RATE_INPUT_RE = ^0\.(\d+)$
RateInputMatch(s) ==
    Len(s) >= 3 /\ s[1] = "0" /\ s[2] = "." /\ AllDigits(SubSeq(s, 3, Len(s)))

\* FracTooShort asking for 4 digits
FracShorterThan4(s) == Len(s) - 2 < 4

\* len(frac) < 5, frac being what follows "0." in a text that matched
FracTooShort(s) == Len(s) - 2 < 5

\* parse_user_rate(raw): ok with the Decimal d, or the RateParseError err
parse_user_rate(raw) ==
    LET s == Strip(raw)
        d == DecimalOf(s)
        Err(e) == [ok |-> FALSE, err |-> e, d |-> Invalid]
    IN  IF s # <<>> /\ s[1] = "-" THEN Err("negative")
        ELSE IF ~RateInputMatch(s) THEN Err("format")
        ELSE IF FracTooShort(s) THEN Err("too_few_digits")
        ELSE IF ~d.valid THEN Err("not_decimal")
        ELSE IF DecLtZero(d) THEN Err("negative")
        ELSE IF DecGeOne(d) THEN Err("not_less_than_one")
        ELSE [ok |-> TRUE, err |-> "", d |-> Quantize(d, Q5)]

\* dict.get(key): the value, or None when the key is absent
Get(d, k) == IF k \in DOMAIN d THEN d[k] ELSE None

\* dict.setdefault(key, default) followed by nothing: the dict afterwards
SetDefault(d, k, v) == IF k \in DOMAIN d THEN d ELSE (k :> v) @@ d

\* d[key] = value: the dict afterwards
SetItem(d, k, v) == (k :> v) @@ d

\* parse_offer_rate(obj): Some(Decimal) or None
parse_offer_rate(obj) ==
    LET v1 == Get(obj, "rate")
        val == IF v1 = None THEN Get(obj, "blendedRate") ELSE v1
        d == DecimalOf(val[1])
    IN  IF val = None THEN None
        ELSE IF ~d.valid THEN None
        ELSE IF DecLtZero(d) \/ DecGeOne(d) THEN None
        ELSE Some(Quantize(d, Q5))

\* ------------------------------------------------------------------ offers
\* the dict fetch_offers appends for one raw record whose rate parsed to rdec
NormalizedOffer(o, rdec) ==
    [id |-> IF "id" \in DOMAIN o THEN o["id"] ELSE "",
     rate_dec |-> rdec,
     rate_str |-> Fmt5(rdec)]

\* the for loop of fetch_offers: records without a rate are skipped
RECURSIVE Normalize(_)
Normalize(raw) ==
    IF raw = <<>> THEN <<>>
    ELSE LET rdec == parse_offer_rate(Head(raw))
         IN  IF rdec = None THEN Normalize(Tail(raw))
             ELSE <<NormalizedOffer(Head(raw), rdec[1])>> \o Normalize(Tail(raw))

RECURSIVE InsertByRate(_, _)

\* InsertByRate putting o before the elements of equal rate
InsertBeforeEqual(sorted, o) ==
    IF sorted = <<>> THEN <<o>>
    ELSE IF ~DecLt(Head(sorted).rate_dec, o.rate_dec) THEN <<o>> \o sorted
    ELSE <<Head(sorted)>> \o InsertByRate(Tail(sorted), o)

\* where list.sort puts o in an already sorted list: after every element
\* whose key is not greater (the sort is stable)
InsertByRate(sorted, o) ==
    IF sorted = <<>> THEN <<o>>
    ELSE IF DecLt(o.rate_dec, Head(sorted).rate_dec) THEN <<o>> \o sorted
    ELSE <<Head(sorted)>> \o InsertByRate(Tail(sorted), o)

\* offers.sort(key=lambda x: x["rate_dec"])
RECURSIVE SortByRate(_)
SortByRate(offers) ==
    IF offers = <<>> THEN <<>>
    ELSE InsertByRate(SortByRate(SubSeq(offers, 1, Len(offers) - 1)),
                      offers[Len(offers)])

OrEmpty(v) == IF v = None THEN <<>> ELSE v[1]

\* fetch_offers() once the feed document `doc` has been received
fetch_offers(doc) ==
    SortByRate(Normalize(OrEmpty(Get(doc, "results"))
                         \o OrEmpty(Get(doc, "compareResults"))))

MonthlyKwh == 750

\* money_savings_per_month rounding down
money_savings_rounded_down(user_rate, best_rate, monthly_kwh) ==
    LET e == Max(user_rate.exp, best_rate.exp)
        diff == Scaled(user_rate, e) - Scaled(best_rate, e)
    IN  IF diff <= 0 THEN [valid |-> TRUE, neg |-> FALSE, coef |-> 0, exp |-> Q2]
        ELSE [valid |-> TRUE, neg |-> FALSE, exp |-> Q2,
              coef |-> (diff * monthly_kwh * Pow10(Q2)) \div Pow10(e)]

\* money_savings_per_month(user_rate, best_rate, monthly_kwh): a Decimal
\* with two fractional digits
money_savings_per_month(user_rate, best_rate, monthly_kwh) ==
    LET e == Max(user_rate.exp, best_rate.exp)
        diff == Scaled(user_rate, e) - Scaled(best_rate, e)
    IN  IF diff <= 0 THEN [valid |-> TRUE, neg |-> FALSE, coef |-> 0, exp |-> Q2]
        ELSE Quantize([valid |-> TRUE, neg |-> FALSE,
                       coef |-> diff * monthly_kwh, exp |-> e], Q2)

\* Better with <= in place of <
BetterOrEqual(offers, user_rate) ==
    SelectSeq(offers, LAMBDA o : ~DecLt(user_rate, o.rate_dec))

\* better = [o for o in offers if o["rate_dec"] < user_rate]
Better(offers, user_rate) ==
    SelectSeq(offers, LAMBDA o : DecLt(o.rate_dec, user_rate))

\* SamePair reading a key the store never holds
SamePairWrongKey(info, best) ==
    /\ Get(info, "last_offer_id") = Some(best.id)
    /\ Get(info, "last_notified_rate") = Some(best.rate_str)

\* last_id == best["id"] and last_rate == best["rate_str"]
SamePair(info, best) ==
    /\ Get(info, "last_notified_offer_id") = Some(best.id)
    /\ Get(info, "last_notified_rate") = Some(best.rate_str)

\* ------------------------------------------------------------------ inputs
Users == {1, 2}

\* where a user types setrate: user 1 in a guild text channel, user 2 in a
\* direct message (ctx.guild is None)
Contexts(u) ==
    IF u = 1 THEN {[channel |-> Some(11), guild |-> Some(7)]}
    ELSE {[channel |-> Some(12), guild |-> None]}

\* texts given to setrate while the daily task runs
RateInputs ==
    { <<"0", ".", "2", "0", "0", "0", "0">>,
      <<"0", ".", "1", "0", "0", "0", "0">>,
      <<"0", ".", "1">> }

\* texts given to setrate when only setrate runs: 0.1234 or 0.9999 followed
\* by up to MaxFrac - 4 more digits, each 4, 5 or 9, and texts of other shapes
MaxFrac == 6
ParserInputs ==
    { <<"0", ".">> \o p \o t :
        p \in {<<"1", "2", "3", "4">>, <<"9", "9", "9", "9">>},
        t \in UNION {[1..n -> {"4", "5", "9"}] : n \in 0..(MaxFrac - 4)} }
    \cup RateInputs
    \cup { <<"-", "0", ".", "1", "2", "3", "4", "5">>,
           <<"1", ".", "0", "0", "0", "0", "0">>,
           <<" ", "0", ".", "1", "2", "3", "4", "5", "5", " ">>,
           <<"0", ".", "1", "2", "a", "4", "5">>,
           <<"a", "b", "c">> }

R15000 == <<"0", ".", "1", "5", "0", "0", "0">>
R10000 == <<"0", ".", "1", "0", "0", "0", "0">>
R09999 == <<"0", ".", "0", "9", "9", "9", "9">>

\* feed documents the marketplace may answer with
Feeds ==
    { [results |-> Some(<<[id |-> "A", rate |-> Some(R15000)],
                          [id |-> "B", rate |-> Some(R10000)]>>),
       compareResults |-> Some(<<[id |-> "C", blendedRate |-> Some(<<"0", ".", "1">>)]>>)],
      [results |-> Some(<<[id |-> "B", rate |-> Some(R09999)]>>),
       compareResults |-> Some(<<[id |-> "A", rate |-> Some(R15000)],
                                 [id |-> "D"]>>)],
      [results |-> Some(<<[id |-> "C", rate |-> Some(R10000)],
                          [id |-> "B", rate |-> Some(R10000)]>>)],
      [results |-> None,
       compareResults |-> Some(<<[id |-> "E", rate |-> Some(<<"a", "b", "c">>)],
                                 [id |-> "F", rate |-> Some(<<"1", ".", "0", "0", "0", "0", "0">>)],
                                 [id |-> "G", rate |-> None,
                                  blendedRate |-> Some(<<"-", "0", ".", "0", "5">>)],
                                 [id |-> "H"]>>)] }

\* more feed documents: the rates 0.15, 0.10, 0.10, 0.20 in that order over
\* both arrays, and rates that round to the next hundred-thousandth
WideFeeds ==
    Feeds \cup
    { [results |-> Some(<<[id |-> "P", rate |-> Some(R15000)],
                          [id |-> "Q", rate |-> Some(R10000)]>>),
       compareResults |-> Some(<<[id |-> "R", blendedRate |-> Some(<<"0", ".", "1">>)],
                                 [id |-> "S", rate |-> Some(<<"0", ".", "2", "0", "0", "0", "0">>)]>>)],
      [results |-> Some(<<[id |-> "T", rate |-> Some(<<"0", ".", "9", "9", "9", "9", "9", "5">>)],
                          [id |-> "U", rate |-> Some(<<"0", ".", "0", "9", "9", "9", "9", "5">>)],
                          [id |-> "V", rate |-> Some(<<"1", ".", "5">>)]>>),
       compareResults |-> Some(<<[id |-> "W", blendedRate |-> Some(R10000)]>>)] }

\* rates.json as found at a start: written by earlier runs, or holding
\* records without a rate or with a rate that is no number (the cases lines
\* 366-372 provide for)
StoredFiles ==
    { (1 :> [rate |-> <<"0", ".", "2", "0", "0", "0", "0">>,
             notify_channel_id |-> Some(11), notify_guild_id |-> Some(7),
             last_notified_offer_id |-> None, last_notified_rate |-> None])
      @@ (2 :> [notify_channel_id |-> Some(12)]),
      (1 :> [rate |-> <<"a", "b", "c">>,
             notify_channel_id |-> Some(11), notify_guild_id |-> Some(7),
             last_notified_offer_id |-> None, last_notified_rate |-> None])
      @@ (2 :> [rate |-> R10000,
                notify_channel_id |-> Some(12), notify_guild_id |-> None,
                last_notified_offer_id |-> Some("B"), last_notified_rate |-> Some(R09999)]),
      (1 :> [rate |-> <<"0", ".", "2", "0", "0", "0", "0">>,
             notify_channel_id |-> Some(11), notify_guild_id |-> Some(7),
             last_notified_offer_id |-> Some("B"), last_notified_rate |-> Some(R10000)])
      @@ (2 :> [rate |-> R10000,
                notify_channel_id |-> Some(12), notify_guild_id |-> None,
                last_notified_offer_id |-> None, last_notified_rate |-> None]) }

WideFetchResults ==
    {[failed |-> TRUE, doc |-> <<>>]} \cup {[failed |-> FALSE, doc |-> f] : f \in WideFeeds}

\* how `await fetch_offers()` ends: an exception, or a feed document
FetchResults == {[failed |-> TRUE, doc |-> <<>>]} \cup {[failed |-> FALSE, doc |-> f] : f \in Feeds}

\* ------------------------------------------------------------------ state
VARIABLES
    store,      \* rates.json: user id -> info dict (<<>> when the file is absent)
    running,    \* daily_check.is_running()
    pc,         \* where daily_check is: "idle", the await it is suspended at, or
                \* "done" when it has just returned or raised
    data,       \* daily_check: the dict it loaded and mutates
    offers,     \* daily_check: the list fetch_offers returned
    todo,       \* daily_check: the users data.items() has still to yield
    cur,        \* daily_check: the send_notification call in progress, or None
    notes,      \* history: the send_notification calls of the pass
    loaded,     \* history: the dict the pass loaded, as loaded
    fetched,    \* history: what the fetch of the pass came back with
    outcome,    \* history: how the pass ended
    writes,     \* history: save_data calls made by the pass
    during,     \* history: command steps taken since the pass loaded the store
    lastSet,    \* history: user id -> the rate that user's latest setrate saved
    ck,         \* the checknow suspended in fetch_offers, or None
    reply,      \* the latest ctx.reply: its kind, the error text of a rejection,
                \* and the argument of the setrate message it replies to
    ncmd,       \* commands issued
    npass,      \* passes started
    feed,       \* history: the feed document the fetch of the pass received
    fetches,    \* history: fetch_offers calls made by the pass
    prev,       \* history: the feed of the latest pass, when that pass saved and
                \* no setrate has saved since
    whole,      \* rates.json holds the whole text of `store` (not a prefix of it)
    tmp,        \* rates.json.tmp: None when absent, else the mapping being
                \* written and how much of its text is there
    cut         \* history: the save_data call the process died in, or None

vars == <<store, running, pc, data, offers, todo, cur, notes, loaded, fetched, outcome,
          writes, during, lastSet, ck, reply, ncmd, npass, feed, fetches, prev,
          whole, tmp, cut>>

passVars ==
    <<pc, data, offers, todo, cur, notes, loaded, fetched, outcome, writes, npass,
      feed, fetches>>

diskVars == <<whole, tmp, cut>>

\* the points where daily_check is suspended and other coroutines may run
AwaitPoints == {"idle", "fetch", "chan_send", "fetch_user", "dm_send"}

\* load_data()
load_data == store

\* a command step, noted when a pass is between its load and its end
Noted(step) == IF pc = "idle" THEN during ELSE during \cup {step}

\* the program starts with rates.json holding `file`
InitWith(file) ==
    /\ store = file
    /\ running = FALSE
    /\ pc = "idle"
    /\ data = <<>>
    /\ offers = <<>>
    /\ todo = <<>>
    /\ cur = None
    /\ notes = <<>>
    /\ loaded = <<>>
    /\ fetched = "none"
    /\ outcome = "none"
    /\ writes = 0
    /\ during = {}
    /\ lastSet = [u \in Users |-> None]
    /\ ck = None
    /\ reply = [kind |-> "none", uid |-> 0, text |-> <<>>, to |-> <<>>]
    /\ ncmd = 0
    /\ npass = 0
    /\ feed = None
    /\ fetches = 0
    /\ prev = None
    /\ whole = TRUE
    /\ tmp = None
    /\ cut = None

\* the first start: there is no rates.json
Init == InitWith(<<>>)

\* ------------------------------------------------------------------ commands
\* the info dict setrate leaves for the user
SetRateInfo(info, d, ctx) ==
    LET i1 == SetItem(info, "rate", Fmt5(d))
        i2 == SetItem(i1, "notify_channel_id", ctx.channel)
        i3 == SetItem(i2, "notify_guild_id", ctx.guild)
        i4 == SetDefault(i3, "last_notified_offer_id", None)
    IN  SetDefault(i4, "last_notified_rate", None)

\* the mapping setrate hands to save_data for the parsed rate d
SetRateData(u, d, ctx) ==
    LET d1 == SetDefault(load_data, u, <<>>)
    IN  SetItem(d1, u, SetRateInfo(d1[u], d, ctx))

\* !setrate <raw>, typed by user u in context ctx
SetRate(u, raw, ctx) ==
    /\ pc \in AwaitPoints
    /\ ncmd < MaxCmds
    /\ ncmd' = ncmd + 1
    /\ during' = Noted("setrate")
    /\ LET r == parse_user_rate(raw)
       IN  IF ~r.ok
           THEN /\ reply' = [kind |-> "rejected", uid |-> u, text |-> <<r.err>>, to |-> raw]
                /\ UNCHANGED <<store, lastSet, prev>>
           ELSE /\ store' = SetRateData(u, r.d, ctx)
                /\ lastSet' = [lastSet EXCEPT ![u] = Some(Fmt5(r.d))]
                /\ prev' = None
                /\ reply' = [kind |-> "saved", uid |-> u, text |-> <<>>, to |-> raw]
    /\ UNCHANGED <<running, ck>>
    /\ UNCHANGED passVars
    /\ UNCHANGED diskVars

\* !checknow by user u, up to its await fetch_offers()
CheckNowStart(u) ==
    /\ pc \in AwaitPoints
    /\ ck = None
    /\ ncmd < MaxCmds
    /\ ncmd' = ncmd + 1
    /\ during' = Noted("checknow")
    /\ LET d0 == load_data
       IN  IF u \notin DOMAIN d0 \/ "rate" \notin DOMAIN d0[u]
           THEN /\ reply' = [kind |-> "no_rate", uid |-> u, text |-> <<>>, to |-> <<>>]
                /\ ck' = None
           ELSE /\ ck' = Some([uid |-> u, user_rate |-> DecimalOf(d0[u]["rate"])])
                /\ UNCHANGED reply
    /\ UNCHANGED <<store, running, lastSet, prev>>
    /\ UNCHANGED passVars
    /\ UNCHANGED diskVars

\* CheckNowFetched recording the offer it reported, as daily_check does
CheckNowFetchedMarks(res) ==
    /\ pc \in AwaitPoints
    /\ ck # None
    /\ ck' = None
    /\ during' = Noted("checknow")
    /\ LET u == ck[1].uid
           got == fetch_offers(res.doc)
           better == Better(got, ck[1].user_rate)
           d0 == load_data
       IN  /\ reply' =
                IF res.failed THEN [kind |-> "api_failed", uid |-> u, text |-> <<>>, to |-> <<>>]
                ELSE IF got = <<>> THEN [kind |-> "no_offers", uid |-> u, text |-> <<>>, to |-> <<>>]
                ELSE IF better # <<>>
                THEN [kind |-> "cheaper", uid |-> u, text |-> <<>>, to |-> <<>>]
                ELSE [kind |-> "not_cheaper", uid |-> u, text |-> <<>>, to |-> <<>>]
           /\ store' =
                IF ~res.failed /\ better # <<>> /\ u \in DOMAIN d0
                THEN SetItem(d0, u,
                       SetItem(SetItem(d0[u], "last_notified_offer_id", Some(better[1].id)),
                               "last_notified_rate", Some(better[1].rate_str)))
                ELSE store
    /\ UNCHANGED <<running, lastSet, ncmd, prev>>
    /\ UNCHANGED passVars
    /\ UNCHANGED diskVars

\* !checknow from the return of fetch_offers() to its reply
CheckNowFetched(res) ==
    /\ pc \in AwaitPoints
    /\ ck # None
    /\ ck' = None
    /\ during' = Noted("checknow")
    /\ LET u == ck[1].uid
           got == fetch_offers(res.doc)
           better == Better(got, ck[1].user_rate)
       IN  reply' =
             IF res.failed THEN [kind |-> "api_failed", uid |-> u, text |-> <<>>, to |-> <<>>]
             ELSE IF got = <<>> THEN [kind |-> "no_offers", uid |-> u, text |-> <<>>, to |-> <<>>]
             ELSE IF better # <<>>
             THEN [kind |-> "cheaper", uid |-> u, text |-> <<>>, to |-> <<>>]
             ELSE [kind |-> "not_cheaper", uid |-> u, text |-> <<>>, to |-> <<>>]
    /\ UNCHANGED <<store, running, lastSet, ncmd, prev>>
    /\ UNCHANGED passVars
    /\ UNCHANGED diskVars

\* ------------------------------------------------------------------ daily task
\* on_ready: start the daily_check loop unless it is running
OnReady ==
    /\ pc # "crashed"
    /\ ~running
    /\ running' = TRUE
    /\ UNCHANGED <<store, during, lastSet, ck, reply, ncmd, prev>>
    /\ UNCHANGED passVars
    /\ UNCHANGED diskVars

\* the order in which data.items() yields the users: save_data writes the
\* keys sorted and json.load keeps the order of the file
RECURSIVE ItemsOrder(_)
ItemsOrder(S) ==
    IF S = {} THEN <<>>
    ELSE LET m == CHOOSE x \in S : \A y \in S : x <= y
         IN  <<m>> \o ItemsOrder(S \ {m})

\* the pass is over: how it ended, and whether the loop task is still alive
EndPass(how) ==
    /\ pc' = "done"
    /\ outcome' = how
    /\ cur' = None
    /\ running' = (how # "raised")
    /\ UNCHANGED <<data, offers, todo>>

\* PassLoad without `if not data: return`
PassLoadNoEmptyCheck ==
    /\ pc = "idle"
    /\ running
    /\ npass < MaxPasses
    /\ npass' = npass + 1
    /\ loaded' = load_data
    /\ pc' = "fetch"
    /\ fetches' = fetches + 1
    /\ data' = load_data
    /\ outcome' = "running"
    /\ UNCHANGED <<offers, todo, cur, running>>
    /\ UNCHANGED <<store, notes, fetched, writes, during, lastSet, ck, reply, ncmd,
                   feed, prev>>
    /\ UNCHANGED diskVars

\* daily_check from its start to `await fetch_offers()`
PassLoad ==
    /\ pc = "idle"
    /\ running
    /\ npass < MaxPasses
    /\ npass' = npass + 1
    /\ loaded' = load_data
    /\ IF load_data = <<>>
       THEN EndPass("empty") /\ UNCHANGED fetches
       ELSE /\ pc' = "fetch"
            /\ fetches' = fetches + 1
            /\ data' = load_data
            /\ outcome' = "running"
            /\ UNCHANGED <<offers, todo, cur, running>>
    /\ UNCHANGED <<store, notes, fetched, writes, during, lastSet, ck, reply, ncmd,
                   feed, prev>>
    /\ UNCHANGED diskVars

\* FetchAborts without `if not offers: return`
FetchAbortsOnFailureOnly(res, got) == res.failed

\* `if not offers: return`, together with the except clause around the fetch
FetchAborts(res, got) == res.failed \/ got = <<>>

\* daily_check from the return of fetch_offers() to the for loop
PassFetched(res) ==
    /\ pc = "fetch"
    /\ LET got == IF res.failed THEN <<>> ELSE fetch_offers(res.doc)
       IN  /\ fetched' = IF res.failed THEN "failed"
                         ELSE IF got = <<>> THEN "empty" ELSE "offers"
           /\ feed' = IF res.failed THEN None ELSE Some(res.doc)
           /\ IF FetchAborts(res, got)
              THEN EndPass(IF res.failed THEN "fetch_failed" ELSE "no_offers")
              ELSE /\ pc' = "loop"
                   /\ offers' = got
                   /\ todo' = ItemsOrder(DOMAIN data)
                   /\ UNCHANGED <<data, cur, outcome, running>>
    /\ UNCHANGED <<store, notes, loaded, writes, during, lastSet, ck, reply,
                   ncmd, npass, fetches, prev>>
    /\ UNCHANGED diskVars

\* Decimal(info["rate"]) of a user the loop does not skip, else Invalid
UserRateOf(info) ==
    IF "rate" \notin DOMAIN info THEN Invalid ELSE DecimalOf(info["rate"])

\* whether the loop body reaches send_notification for this user
WantsNotification(info, offs) ==
    LET user_rate == UserRateOf(info)
        better == Better(offs, user_rate)
    IN  /\ user_rate.valid
        /\ better # <<>>
        /\ ~SamePair(info, better[1])

\* one iteration of `for uid_str, info in data.items()` up to the first
\* await of send_notification, or to the next iteration when it continues
PassEval ==
    /\ pc = "loop"
    /\ todo # <<>>
    /\ LET u == Head(todo)
           info == data[u]
           user_rate == UserRateOf(info)
           best == Better(offers, user_rate)[1]
           channel_id == Get(info, "notify_channel_id")
       IN  IF ~WantsNotification(info, offers)
           THEN /\ todo' = Tail(todo)
                /\ UNCHANGED <<pc, cur>>
           ELSE \E isText \in BOOLEAN :
                  /\ cur' = Some([uid |-> u, id |-> best.id, rate_str |-> best.rate_str,
                                  savings |-> money_savings_per_month(
                                                  user_rate, best.rate_dec, MonthlyKwh)])
                  /\ pc' = IF channel_id # None /\ isText THEN "chan_send"
                           ELSE "fetch_user"
                  /\ UNCHANGED todo
    /\ UNCHANGED <<store, running, data, offers, notes, loaded, fetched, outcome,
                   writes, during, lastSet, ck, reply, ncmd, npass, feed, fetches,
                   prev>>
    /\ UNCHANGED diskVars

\* UpdateState forgetting the rate of the offer
UpdateStateIdOnly(info, c) ==
    SetItem(info, "last_notified_offer_id", Some(c.id))

\* UpdateState putting a new record in place of the user's
UpdateStateReplaces(info, c) ==
    [last_notified_offer_id |-> Some(c.id), last_notified_rate |-> Some(c.rate_str)]

\* info["last_notified_offer_id"] = best["id"];
\* info["last_notified_rate"] = best["rate_str"]
UpdateState(info, c) ==
    SetItem(SetItem(info, "last_notified_offer_id", Some(c.id)),
            "last_notified_rate", Some(c.rate_str))

\* send_notification has returned: lines 406-408, and on to the next user
Notified(how) ==
    /\ notes' = Append(notes, [uid |-> cur[1].uid, id |-> cur[1].id,
                               rate_str |-> cur[1].rate_str,
                               savings |-> cur[1].savings, result |-> how])
    /\ data' = SetItem(data, cur[1].uid, UpdateState(data[cur[1].uid], cur[1]))
    /\ todo' = Tail(todo)
    /\ cur' = None
    /\ pc' = "loop"
    /\ UNCHANGED <<offers, outcome, running>>

\* an exception leaves send_notification and daily_check
Raised ==
    /\ notes' = Append(notes, [uid |-> cur[1].uid, id |-> cur[1].id,
                               rate_str |-> cur[1].rate_str,
                               savings |-> cur[1].savings, result |-> "raised"])
    /\ EndPass("raised")

\* what send_notification does with the result of `await channel.send(...)`
AfterChannelSend(r) ==
    IF r = "ok" THEN Notified("channel")
    ELSE /\ pc' = "fetch_user"
         /\ UNCHANGED <<data, offers, todo, cur, notes, outcome, running>>

\* what send_notification does with the result of `await bot.fetch_user(...)`
AfterFetchUser(r) ==
    IF r = "ok"
    THEN /\ pc' = "dm_send"
         /\ UNCHANGED <<data, offers, todo, cur, notes, outcome, running>>
    ELSE IF r = "Forbidden" THEN Notified("dropped")
    ELSE Raised

\* what send_notification does with the result of `await user.send(text)`
AfterUserSend(r) ==
    IF r = "ok" THEN Notified("dm")
    ELSE IF r = "Forbidden" THEN Notified("dropped")
    ELSE Raised

\* results of a Discord call: done, discord.Forbidden, or another
\* discord.HTTPException (NotFound, a server error)
CallResults == {"ok", "Forbidden", "HTTPException"}

PassChannelSend(r) ==
    /\ pc = "chan_send"
    /\ AfterChannelSend(r)
    /\ UNCHANGED <<store, loaded, fetched, writes, during, lastSet, ck, reply, ncmd,
                   npass, feed, fetches, prev>>
    /\ UNCHANGED diskVars

PassFetchUser(r) ==
    /\ pc = "fetch_user"
    /\ AfterFetchUser(r)
    /\ UNCHANGED <<store, loaded, fetched, writes, during, lastSet, ck, reply, ncmd,
                   npass, feed, fetches, prev>>
    /\ UNCHANGED diskVars

PassUserSend(r) ==
    /\ pc = "dm_send"
    /\ AfterUserSend(r)
    /\ UNCHANGED <<store, loaded, fetched, writes, during, lastSet, ck, reply, ncmd,
                   npass, feed, fetches, prev>>
    /\ UNCHANGED diskVars

\* save_data(data) after the loop
PassSave ==
    /\ pc = "loop"
    /\ todo = <<>>
    /\ store' = data
    /\ writes' = writes + 1
    /\ EndPass("saved")
    /\ UNCHANGED <<notes, loaded, fetched, during, lastSet, ck, reply, ncmd, npass,
                   feed, fetches, prev>>
    /\ UNCHANGED diskVars

\* daily_check has returned or raised: its locals are gone, and the loop
\* task sleeps until the next day (or is dead, until on_ready restarts it)
PassReturn ==
    /\ pc = "done"
    /\ pc' = "idle"
    /\ data' = <<>>
    /\ offers' = <<>>
    /\ todo' = <<>>
    /\ cur' = None
    /\ notes' = <<>>
    /\ loaded' = <<>>
    /\ fetched' = "none"
    /\ outcome' = "none"
    /\ writes' = 0
    /\ during' = {}
    /\ feed' = None
    /\ fetches' = 0
    /\ prev' = IF outcome = "saved" THEN feed ELSE None
    /\ UNCHANGED <<store, running, lastSet, ck, reply, ncmd, npass>>
    /\ UNCHANGED diskVars

Next ==
    \/ \E u \in Users, raw \in RateInputs : \E ctx \in Contexts(u) : SetRate(u, raw, ctx)
    \/ \E u \in Users : CheckNowStart(u)
    \/ \E res \in FetchResults : CheckNowFetched(res)
    \/ OnReady
    \/ PassLoad
    \/ \E res \in FetchResults : PassFetched(res)
    \/ PassEval
    \/ \E r \in CallResults : PassChannelSend(r)
    \/ \E r \in CallResults : PassFetchUser(r)
    \/ \E r \in CallResults : PassUserSend(r)
    \/ PassSave
    \/ PassReturn

Spec == Init /\ [][Next]_vars

\* setrate alone, over the wider set of texts
NextSetRate ==
    \E u \in Users, raw \in ParserInputs : \E ctx \in Contexts(u) : SetRate(u, raw, ctx)

SetRateSpec == Init /\ [][NextSetRate]_vars

\* ------------------------------------------------------------------ crashes
\* where in save_data the process may die: after line 39 has created the
\* temporary file ("open"), with part of the text written by line 40
\* ("dump"), with all of it written ("close"), after os.replace ("replace")
SaveSteps == {"open", "dump", "close", "replace"}

\* save_data_cut writing rates.json itself, without a temporary file
save_data_cut_in_place(d, step) ==
    [store |-> d, whole |-> step \in {"close", "replace"}, tmp |-> None]

\* rates.json and rates.json.tmp when the process dies in save_data(d) right
\* after `step`: os.replace moves the whole temporary file over rates.json
save_data_cut(d, step) ==
    [store |-> IF step = "replace" THEN d ELSE store,
     whole |-> whole,
     tmp |-> IF step = "replace" THEN None
             ELSE Some([of |-> d,
                        text |-> CASE step = "open" -> "empty"
                                   [] step = "dump" -> "part"
                                   [] step = "close" -> "all"])]

\* the process is gone, and with it the memory of every coroutine
Died ==
    /\ pc' = "crashed"
    /\ running' = FALSE
    /\ data' = <<>>
    /\ offers' = <<>>
    /\ todo' = <<>>
    /\ cur' = None
    /\ notes' = <<>>
    /\ loaded' = <<>>
    /\ fetched' = "none"
    /\ outcome' = "none"
    /\ writes' = 0
    /\ during' = {}
    /\ ck' = None
    /\ feed' = None
    /\ fetches' = 0
    /\ prev' = None

\* the process dies outside save_data
Crash ==
    /\ pc # "crashed"
    /\ Died
    /\ cut' = None
    /\ UNCHANGED <<store, whole, tmp, lastSet, reply, ncmd, npass>>

\* the process dies in the save_data call of setrate (line 296)
CrashInSetRate(u, raw, ctx, step) ==
    /\ pc \in AwaitPoints
    /\ ncmd < MaxCmds
    /\ parse_user_rate(raw).ok
    /\ ncmd' = ncmd + 1
    /\ LET d == SetRateData(u, parse_user_rate(raw).d, ctx)
           f == save_data_cut(d, step)
       IN  /\ store' = f.store
           /\ whole' = f.whole
           /\ tmp' = f.tmp
           /\ cut' = Some([by |-> "setrate", old |-> store, new |-> d])
           /\ lastSet' = IF step = "replace"
                         THEN [lastSet EXCEPT ![u] = Some(Fmt5(parse_user_rate(raw).d))]
                         ELSE lastSet
    /\ Died
    /\ UNCHANGED <<reply, npass>>

\* the process dies in the save_data call of daily_check (line 410)
CrashInPassSave(step) ==
    /\ pc = "loop"
    /\ todo = <<>>
    /\ LET f == save_data_cut(data, step)
       IN  /\ store' = f.store
           /\ whole' = f.whole
           /\ tmp' = f.tmp
           /\ cut' = Some([by |-> "daily_check", old |-> store, new |-> data])
    /\ Died
    /\ UNCHANGED <<lastSet, reply, ncmd, npass>>

\* the program with the process free to die at any point
NextCrash ==
    \/ Next
    \/ Crash
    \/ \E u \in Users, raw \in RateInputs, step \in SaveSteps :
          \E ctx \in Contexts(u) : CrashInSetRate(u, raw, ctx, step)
    \/ \E step \in SaveSteps : CrashInPassSave(step)

CrashSpec == Init /\ [][NextCrash]_vars

\* the daily task alone, started on a rates.json of earlier runs, over the
\* wider set of feeds
InitPass == \E file \in StoredFiles : InitWith(file)

NextPass ==
    \/ OnReady
    \/ PassLoad
    \/ \E res \in WideFetchResults : PassFetched(res)
    \/ PassEval
    \/ \E r \in CallResults : PassChannelSend(r)
    \/ \E r \in CallResults : PassFetchUser(r)
    \/ \E r \in CallResults : PassUserSend(r)
    \/ PassSave
    \/ PassReturn

PassSpec == InitPass /\ [][NextPass]_vars

\* ------------------------------------------------------------------ claims
\* the stored dedup pair of an info dict
PairOf(info) ==
    <<Get(info, "last_notified_offer_id"), Get(info, "last_notified_rate")>>

PairOfOffer(o) == <<Some(o.id), Some(o.rate_str)>>

HasRate(info) == "rate" \in DOMAIN info /\ DecimalOf(info["rate"]).valid

\* positions in offs of the offers strictly cheaper than the info's rate
CheaperAt(info, offs) ==
    {i \in DOMAIN offs : DecLt(offs[i].rate_dec, DecimalOf(info["rate"]))}

\* the lowest-rate offer strictly cheaper than the info's rate, the first of
\* the list among equal rates
BestFor(info, offs) ==
    offs[CHOOSE i \in CheaperAt(info, offs) :
           \A j \in CheaperAt(info, offs) :
              /\ ~DecLt(offs[j].rate_dec, offs[i].rate_dec)
              /\ (~DecLt(offs[i].rate_dec, offs[j].rate_dec) => i <= j)]

HasCheaper(info, offs) == HasRate(info) /\ CheaperAt(info, offs) # {}

NotesFor(u) == SelectSeq(notes, LAMBDA n : n.uid = u)

InLoop == pc \in {"loop", "chan_send", "fetch_user", "dm_send"}

\* the loop of the pass has been through every user
LoopDone == pc = "loop" /\ todo = <<>>

\* C1: every successful setrate leaves the user's persisted
\* last_notified_offer_id and last_notified_rate both None.
C1_SetRateResetsPair ==
    [][(ncmd' # ncmd /\ reply'.kind = "saved")
         => PairOf(store'[reply'.uid]) = <<None, None>>]_vars

\* C2: in a daily pass, a user whose stored pair equals (best.id,
\* best.rate_str) of the best cheaper offer gets no notification and the
\* user's record is not changed.
C2_DuplicateSuppressed ==
    InLoop =>
      \A u \in DOMAIN loaded :
         (HasCheaper(loaded[u], offers)
            /\ PairOf(loaded[u]) = PairOfOffer(BestFor(loaded[u], offers)))
         => /\ NotesFor(u) = <<>>
            /\ cur = None \/ cur[1].uid # u
            /\ data[u] = loaded[u]

C2_Witness ==
    /\ LoopDone
    /\ \E u \in DOMAIN loaded :
          /\ HasCheaper(loaded[u], offers)
          /\ PairOf(loaded[u]) = PairOfOffer(BestFor(loaded[u], offers))

\* C3: when a pass that got offers ends, every user with a best cheaper
\* offer whose pair differs from the stored pair has been issued exactly one
\* notification, for that offer, and the user's stored pair equals
\* (best.id, best.rate_str).
C3_NotifiesAndAdvances ==
    (pc = "done" /\ fetched = "offers") =>
      \A u \in DOMAIN loaded :
         (HasCheaper(loaded[u], offers)
            /\ PairOf(loaded[u]) # PairOfOffer(BestFor(loaded[u], offers)))
         => /\ Len(NotesFor(u)) = 1
            /\ \A i \in DOMAIN notes :
                  notes[i].uid = u
                  => <<Some(notes[i].id), Some(notes[i].rate_str)>>
                       = PairOfOffer(BestFor(loaded[u], offers))
            /\ u \in DOMAIN store
            /\ PairOf(store[u]) = PairOfOffer(BestFor(loaded[u], offers))

\* C4: a delivery failure never raises out of the notifier and never aborts
\* the pass: a pass that got offers ends by saving the snapshot.
C4_DeliveryFailureSwallowed ==
    (pc = "done" /\ fetched = "offers") => (outcome = "saved" /\ writes = 1)

\* C5: a pass whose fetch fails or returns no offers ends without a
\* notification, without a write of the store, and leaves the store as it
\* was loaded.
C5_FetchFailureLeavesStore ==
    fetched \in {"failed", "empty"}
    => /\ pc = "done"
       /\ notes = <<>>
       /\ writes = 0
       /\ data = loaded
       /\ ("setrate" \notin during => store = loaded)

C5_Witness ==
    /\ fetched = "failed"
    /\ pc = "done"
    /\ "setrate" \notin during
    /\ \E u \in DOMAIN store : PairOf(store[u]) # <<None, None>>

\* C6: when delivery of a notification ultimately fails, the user's stored
\* pair still advances to the offer's pair and that pass persists it.
C6_FailedDeliveryAdvances ==
    pc = "done" =>
      \A i \in DOMAIN notes :
         notes[i].result \in {"dropped", "raised"}
         => /\ outcome = "saved"
            /\ notes[i].uid \in DOMAIN store
            /\ PairOf(store[notes[i].uid])
                 = <<Some(notes[i].id), Some(notes[i].rate_str)>>

\* C7: once a user's setrate has saved rate r, the store keeps an entry for
\* that user with rate r until that user's next successful setrate.
C7_SavedRateKept ==
    \A u \in Users :
       lastSet[u] # None
       => u \in DOMAIN store /\ Get(store[u], "rate") = lastSet[u][1]

\* C8: between a pass's load and its save or abort no command executes a
\* step.
C8_PassesAndCommandsSerialized == during = {}

\* C9: every rate that setrate persists is a 5-decimal value v with
\* 0 <= v < 1.
C9_StoredRateInRange ==
    \A u \in DOMAIN store :
       "rate" \in DOMAIN store[u]
       => LET d == DecimalOf(store[u]["rate"])
          IN  d.valid /\ d.exp = Q5 /\ ~DecLtZero(d) /\ ~DecGeOne(d)

\* C10: in a daily pass, a user for whom no offer is strictly cheaper than
\* the user's rate gets no notification and the user's stored pair stays as
\* it was, a prior Notified pair included.
C10_NoCheaperNoChange ==
    InLoop =>
      \A u \in DOMAIN loaded :
         (HasRate(loaded[u]) /\ CheaperAt(loaded[u], offers) = {})
         => /\ NotesFor(u) = <<>>
            /\ cur = None \/ cur[1].uid # u
            /\ PairOf(data[u]) = PairOf(loaded[u])

C10_Witness ==
    /\ LoopDone
    /\ \E u \in DOMAIN loaded :
          /\ HasRate(loaded[u])
          /\ CheaperAt(loaded[u], offers) = {}
          /\ PairOf(loaded[u]) # <<None, None>>
          /\ \E i \in DOMAIN offers :
                /\ ~DecLt(offers[i].rate_dec, DecimalOf(loaded[u]["rate"]))
                /\ ~DecLt(DecimalOf(loaded[u]["rate"]), offers[i].rate_dec)

\* a step of checknow: it suspends in or resumes from fetch_offers, or it
\* replies that no rate is set
CheckNowStep ==
    \/ ck' # ck
    \/ ncmd' # ncmd /\ reply'.kind = "no_rate"

\* C11: no step of checknow, whatever its outcome (no rate set, fetch
\* failure, empty feed, reply with the best offer), changes the persisted
\* store: every user's rate and last_notified fields stay as they were.
C11_CheckNowLeavesStore == [][CheckNowStep => store' = store]_vars

C11_Witness ==
    /\ reply.kind = "cheaper"
    /\ reply.uid \in DOMAIN store
    /\ PairOf(store[reply.uid]) = <<None, None>>

\* the texts the rate rule refuses: a leading "-", not "0." followed by
\* digits only, fewer than 5 digits after the point, or a value of 1 or more
\* (surrounding blanks aside)
C12_Refused(raw) ==
    LET s == Strip(raw)
        dot == DotAt(s, 1)
    IN  \/ s # <<>> /\ s[1] = "-"
        \/ ~(/\ Len(s) >= 3
              /\ SubSeq(s, 1, 2) = <<"0", ".">>
              /\ \A i \in 3..Len(s) : s[i] \in Digits)
        \/ Len(s) - dot < 5
        \/ DecimalOf(s).valid /\ DecGeOne(DecimalOf(s))

\* C12: a setrate whose text the rate rule refuses replies with a
\* validation message to the caller and leaves the persisted store as it
\* was.
C12_RejectedLeavesStore ==
    [][(ncmd' # ncmd /\ reply'.kind \in {"saved", "rejected"} /\ C12_Refused(reply'.to))
         => /\ reply'.kind = "rejected"
            /\ reply'.text # <<>>
            /\ store' = store]_vars

C12_Witness ==
    /\ reply.kind = "rejected"
    /\ reply.text = <<"too_few_digits">>
    /\ store # <<>>

\* C13: a pass that follows a pass that saved, receives the same feed and has
\* had no setrate save since, issues no notification and saves the store it
\* loaded.
C13_RepeatPassIdle ==
    (pc # "idle" /\ prev # None /\ feed = prev)
    => /\ notes = <<>>
       /\ cur = None
       /\ data = loaded
       /\ pc = "done" => (outcome = "saved" /\ writes = 1 /\ store = loaded)

C13_Witness ==
    /\ pc = "done"
    /\ prev # None
    /\ feed = prev
    /\ \E u \in DOMAIN loaded : HasCheaper(loaded[u], offers)

\* C16: a pass makes at most one fetch_offers call whatever the number of
\* users, makes no fetch and no save when the store it loaded is empty, and
\* calls save_data at most once, after the loop has been through every user.
C16_OneFetchOneSave ==
    /\ fetches <= 1
    /\ writes <= 1
    /\ (pc # "idle" /\ loaded = <<>>)
       => (pc = "done" /\ outcome = "empty" /\ fetches = 0 /\ writes = 0)
    /\ writes = 1
       => /\ pc = "done"
          /\ outcome = "saved"
          /\ fetches = 1
          /\ todo = <<>>
          /\ \A u \in DOMAIN loaded :
                HasCheaper(loaded[u], offers)
                /\ PairOf(loaded[u]) # PairOfOffer(BestFor(loaded[u], offers))
                => NotesFor(u) # <<>>

C16_Witness ==
    /\ writes = 1
    /\ Cardinality(DOMAIN loaded) = 2
    /\ Len(notes) = 2

\* rates the savings are computed for: equal, a hundred-thousandth apart,
\* at rounding ties of the cent (6 hundred-thousandths at 750 kWh make
\* 0.045), and the two examples
C19_Rates ==
    { <<"0", ".", "0", "0", "0", "0", "0">>, <<"0", ".", "0", "9", "9", "9", "4">>,
      R09999, R10000, <<"0", ".", "1", "0", "0", "0", "2">>,
      <<"0", ".", "1", "2", "0", "0", "0">>, R15000,
      <<"0", ".", "9", "9", "9", "9", "9">> }

\* r is u - o times kwh in cents, rounded half up, or zero when o is not
\* below u (u and o with 5 fractional digits)
C19_IsSaving(r, u, o, kwh) ==
    LET x == (Scaled(u, Q5) - Scaled(o, Q5)) * kwh     \* in 10^-5 dollars
        half == Pow10(Q5 - Q2) \div 2
    IN  /\ r.valid /\ ~r.neg /\ r.exp = Q2
        /\ x <= 0 => r.coef = 0
        /\ x > 0 => /\ r.coef * Pow10(Q5 - Q2) - half <= x
                    /\ x < r.coef * Pow10(Q5 - Q2) + half

\* C19: money_savings_per_month is never negative, is 0.00 when the offer
\* rate is not below the user rate and otherwise (user rate - offer rate) *
\* usage rounded half up to cents (0.15000, 0.12000, 750 give 22.50); the
\* saving reported by every notification of a pass is above zero.
C19_SavingsRounded ==
    /\ \A ur \in C19_Rates, orr \in C19_Rates :
          C19_IsSaving(money_savings_per_month(DecimalOf(ur), DecimalOf(orr), MonthlyKwh),
                       DecimalOf(ur), DecimalOf(orr), MonthlyKwh)
    /\ money_savings_per_month(DecimalOf(R15000),
                               DecimalOf(<<"0", ".", "1", "2", "0", "0", "0">>), 750)
         = [valid |-> TRUE, neg |-> FALSE, coef |-> 2250, exp |-> 2]
    /\ money_savings_per_month(DecimalOf(R10000),
                               DecimalOf(<<"0", ".", "1", "2", "0", "0", "0">>), 750)
         = [valid |-> TRUE, neg |-> FALSE, coef |-> 0, exp |-> 2]
    /\ \A i \in DOMAIN notes :
          /\ notes[i].savings.coef > 0
          /\ C19_IsSaving(notes[i].savings, DecimalOf(loaded[notes[i].uid]["rate"]),
                          DecimalOf(notes[i].rate_str), 750)

\* a notification whose saving is one cent: the offer is a hundred-thousandth
\* below the user's rate
C19_Witness ==
    \E i \in DOMAIN notes :
       /\ notes[i].savings.coef = 1
       /\ notes[i].result \in {"channel", "dm"}

C14_PairKeys == {"last_notified_offer_id", "last_notified_rate"}

\* C14: when a pass saves, the snapshot it saves has the user ids of the
\* snapshot it loaded, each user's rate, notify_channel_id and
\* notify_guild_id as loaded, and a last_notified pair that differs only for
\* users issued a notification in the pass; users without a rate key or with
\* an unparseable rate are issued none and their records are as loaded.
C14_PassFrame ==
    (pc = "done" /\ outcome = "saved") =>
      /\ store = data
      /\ DOMAIN data = DOMAIN loaded
      /\ \A u \in DOMAIN loaded :
            /\ DOMAIN data[u] \ C14_PairKeys = DOMAIN loaded[u] \ C14_PairKeys
            /\ \A k \in DOMAIN loaded[u] \ C14_PairKeys : data[u][k] = loaded[u][k]
            /\ PairOf(data[u]) # PairOf(loaded[u]) => NotesFor(u) # <<>>
            /\ ~HasRate(loaded[u]) => (data[u] = loaded[u] /\ NotesFor(u) = <<>>)

C14_Witness ==
    /\ pc = "done"
    /\ outcome = "saved"
    /\ \E u \in DOMAIN loaded : "rate" \notin DOMAIN loaded[u]
    /\ \E u \in DOMAIN loaded : PairOf(data[u]) # PairOf(loaded[u])

\* the raw records of the feed the pass received, results first
RawOf(doc) == OrEmpty(Get(doc, "results")) \o OrEmpty(Get(doc, "compareResults"))

\* the rate text of a raw record (rate, else blendedRate), or None
C17_RateText(o) ==
    IF Get(o, "rate") # None THEN Get(o, "rate") ELSE Get(o, "blendedRate")

\* a raw record with neither rate nor blendedRate, with an unparseable rate,
\* with a negative rate or with a rate of 1 or more
C17_Unusable(o) ==
    LET t == C17_RateText(o)
    IN  \/ t = None
        \/ ~DecimalOf(t[1]).valid
        \/ DecLtZero(DecimalOf(t[1]))
        \/ DecGeOne(DecimalOf(t[1]))

\* C17: every offer of the list fetch_offers returns has a rate_dec with
\* exactly 5 fractional digits and 0 <= rate_dec < 1; the unusable raw
\* records are not in the list and all other records are.
C17_OffersInRange ==
    feed # None =>
      LET raw == RawOf(feed[1])
      IN  /\ \A i \in DOMAIN offers :
                /\ offers[i].rate_dec.valid
                /\ offers[i].rate_dec.exp = Q5
                /\ ~DecLtZero(offers[i].rate_dec)
                /\ ~DecGeOne(offers[i].rate_dec)
          /\ {offers[i].id : i \in DOMAIN offers}
               = {raw[k].id : k \in {j \in DOMAIN raw : ~C17_Unusable(raw[j])}}
          /\ Len(offers) = Cardinality({j \in DOMAIN raw : ~C17_Unusable(raw[j])})

\* positions of the raw records fetch_offers normalizes
C18_Kept(raw) == {k \in DOMAIN raw : parse_offer_rate(raw[k]) # None}

\* the place of raw record k in the ranking: after the kept records of lower
\* rate and the earlier kept records of equal rate
C18_Rank(raw, k) ==
    1 + Cardinality({j \in C18_Kept(raw) :
          \/ DecLt(parse_offer_rate(raw[j])[1], parse_offer_rate(raw[k])[1])
          \/ /\ ~DecLt(parse_offer_rate(raw[k])[1], parse_offer_rate(raw[j])[1])
             /\ j < k})

\* C18: the list fetch_offers returns holds exactly the normalized records,
\* ascending by rate_dec, equal rates in feed order (results before
\* compareResults); its first element is the best offer overall and its
\* first element below a user's rate is that user's best cheaper offer.
C18_RankedStable ==
    feed # None =>
      LET raw == RawOf(feed[1])
      IN  /\ Len(offers) = Cardinality(C18_Kept(raw))
          /\ \A k \in C18_Kept(raw) :
                offers[C18_Rank(raw, k)]
                  = NormalizedOffer(raw[k], parse_offer_rate(raw[k])[1])
          /\ \A i \in DOMAIN offers, j \in DOMAIN offers :
                i < j => ~DecLt(offers[j].rate_dec, offers[i].rate_dec)
          /\ \A i \in DOMAIN offers : ~DecLt(offers[i].rate_dec, offers[1].rate_dec)
          /\ \A u \in DOMAIN loaded :
                HasCheaper(loaded[u], offers)
                => Better(offers, DecimalOf(loaded[u]["rate"]))[1]
                     = BestFor(loaded[u], offers)

\* the feed 0.15, 0.10, 0.10, 0.20 ranked: Q (results) before R
\* (compareResults), then P, then S
C18_Witness ==
    /\ feed # None
    /\ Len(offers) = 4
    /\ offers[1].id = "Q" /\ offers[2].id = "R"
    /\ offers[3].id = "P" /\ offers[4].id = "S"

\* C15: when the process dies, in save_data or at any step of a pass,
\* rates.json holds a whole mapping: the one from before the save, or the
\* new one; a death before the replace of the pass's save leaves every
\* user's stored rate as it was.
C15_CrashKeepsWholeFile ==
    [][(pc # "crashed" /\ pc' = "crashed")
         => /\ whole'
            /\ cut' = None => store' = store
            /\ cut' # None
               => /\ cut'[1].old = store
                  /\ store' \in {cut'[1].old, cut'[1].new}
            /\ (pc \notin {"idle", "done"} /\ (cut' = None \/ store' = cut'[1].old))
               => \A u \in DOMAIN store :
                     /\ u \in DOMAIN store'
                     /\ Get(store'[u], "rate") = Get(store[u], "rate")]_vars

\* the process has died in the pass's save_data with part of the new text
\* in the temporary file
C15_Witness ==
    /\ pc = "crashed"
    /\ cut # None
    /\ cut[1].by = "daily_check"
    /\ cut[1].new # cut[1].old
    /\ tmp # None
    /\ tmp[1].text = "part"
    /\ store = cut[1].old
====
